---- MODULE Spec2Model ----
(***************************************************************************)
(* Household budget tracker (src/app.py): CSV record store, the loaders,   *)
(* the request handlers and the dashboard's shared-cost allocation.        *)
(*                                                                         *)
(* Texts (CSV cells, form fields) are sequences of one-character strings,  *)
(* so that strip(), lower(), replace(), float() and sorted() are modelled  *)
(* by what they do.  Python floats are modelled as exact rationals         *)
(* [n |-> numerator, d |-> denominator] in lowest terms with d > 0: the    *)
(* arithmetic claims are settled up to floating-point rounding.            *)
(***************************************************************************)
EXTENDS Integers, Sequences, FiniteSets

(***************************************************************************)
(* Bounds of the model.                                                    *)
(***************************************************************************)
\* longest expenses.csv (data rows) the engine specification starts from
MaxExpenses == 2
\* most rows of the sample income list an incomes.csv of the engine
\* specification holds
MaxIncomes == 3
\* rows a file of the store specification may grow to by add_income /
\* add_expense, and names accounts.csv may grow to by append_account
MaxRows == 2
\* names append_account may add to the default accounts
MaxNewAccounts == 1
\* requests the store specification serves in a run
MaxRequests == 3

(***************************************************************************)
(* Rational arithmetic (Python float, up to rounding).                     *)
(***************************************************************************)
Abs(x) == IF x < 0 THEN -x ELSE x

RECURSIVE Gcd(_, _)
Gcd(a, b) == IF b = 0 THEN a ELSE Gcd(b, a % b)

Q(n, d) ==
    LET g == Gcd(Abs(n), Abs(d))
        s == IF d < 0 THEN -1 ELSE 1
    IN  [n |-> s * (n \div g), d |-> s * (d \div g)]

QInt(k) == [n |-> k, d |-> 1]
Zero == QInt(0)
\* the sum and the difference over the least common denominator, the product
\* and the quotient cancelled crosswise, which keeps the integers small
Lcm(x, y) == (x \div Gcd(x, y)) * y
QAdd(a, b) ==
    LET l == Lcm(a.d, b.d) IN Q(a.n * (l \div a.d) + b.n * (l \div b.d), l)
QSub(a, b) ==
    LET l == Lcm(a.d, b.d) IN Q(a.n * (l \div a.d) - b.n * (l \div b.d), l)
QMul(a, b) ==
    LET x == Q(a.n, b.d)
        y == Q(b.n, a.d)
    IN  [n |-> x.n * y.n, d |-> x.d * y.d]
\* a / b; the caller models ZeroDivisionError (b = 0) itself
QDiv(a, b) ==
    IF b.n = 0 THEN Zero
    ELSE QMul(a, IF b.n < 0 THEN [n |-> -b.d, d |-> -b.n] ELSE [n |-> b.d, d |-> b.n])
QLt(a, b) == QSub(a, b).n < 0
QLe(a, b) == QSub(a, b).n <= 0
QMax(a, b) == IF QLt(a, b) THEN b ELSE a

(***************************************************************************)
(* Text.                                                                   *)
(***************************************************************************)
\* Python's None: no text is equal to it (a text holds 1-character strings)
None == <<"None">>

\* the characters of the model's texts with their code points
Punct == << <<" ", 32>>, <<"+", 43>>, <<",", 44>>, <<"-", 45>>, <<".", 46>> >>
Digits == <<"0", "1", "2", "3", "4", "5", "6", "7", "8", "9">>
Upper ==
    <<"A", "B", "C", "D", "E", "F", "G", "H", "I", "J", "K", "L", "M",
      "N", "O", "P", "Q", "R", "S", "T", "U", "V", "W", "X", "Y", "Z">>
Lowers ==
    <<"a", "b", "c", "d", "e", "f", "g", "h", "i", "j", "k", "l", "m",
      "n", "o", "p", "q", "r", "s", "t", "u", "v", "w", "x", "y", "z">>

IndexOf(seq, c) == CHOOSE i \in 1..Len(seq) : seq[i] = c
IsIn(seq, c) == \E i \in 1..Len(seq) : seq[i] = c

\* ord(c)
Ord(c) ==
    IF IsIn(Digits, c) THEN 47 + IndexOf(Digits, c)
    ELSE IF IsIn(Upper, c) THEN 64 + IndexOf(Upper, c)
    ELSE IF IsIn(Lowers, c) THEN 96 + IndexOf(Lowers, c)
    ELSE (CHOOSE p \in {Punct[i] : i \in 1..Len(Punct)} : p[1] = c)[2]

\* str.lower() on one character
LowerChar(c) == IF IsIn(Upper, c) THEN Lowers[IndexOf(Upper, c)] ELSE c

\* str.lower()
Lower(s) == [i \in 1..Len(s) |-> LowerChar(s[i])]

IsSpace(c) == c = " "

RECURSIVE LStrip(_)
LStrip(s) == IF s # <<>> /\ IsSpace(Head(s)) THEN LStrip(Tail(s)) ELSE s

RECURSIVE RStrip(_)
RStrip(s) ==
    IF s # <<>> /\ IsSpace(s[Len(s)]) THEN RStrip(SubSeq(s, 1, Len(s) - 1)) ELSE s

\* str.strip()
Strip(s) == RStrip(LStrip(s))

\* str.replace(",", ".")
ReplaceComma(s) == [i \in 1..Len(s) |-> IF s[i] = "," THEN "." ELSE s[i]]

\* s < t for Python strings: lexicographic by code point
RECURSIVE TextLess(_, _)
TextLess(s, t) ==
    IF t = <<>> THEN FALSE
    ELSE IF s = <<>> THEN TRUE
    ELSE IF Head(s) = Head(t) THEN TextLess(Tail(s), Tail(t))
    ELSE Ord(Head(s)) < Ord(Head(t))

\* truthiness of a cell: None and "" are falsy
Truthy(x) == x # None /\ x # <<>>

\* x or y
Or(x, y) == IF Truthy(x) THEN x ELSE y

(***************************************************************************)
(* float(text) and str(float).                                             *)
(***************************************************************************)
IsDigit(c) == IsIn(Digits, c)
DigitVal(c) == IndexOf(Digits, c) - 1

RECURSIVE Pow10(_)
Pow10(k) == IF k = 0 THEN 1 ELSE 10 * Pow10(k - 1)

\* value of a run of digits
RECURSIVE DigitsVal(_)
DigitsVal(s) ==
    IF s = <<>> THEN 0 ELSE 10 * DigitsVal(SubSeq(s, 1, Len(s) - 1)) + DigitVal(s[Len(s)])

\* the unsigned literals float() takes: digits with at most one ".", and at
\* least one digit (exponents, "inf", "nan" and "_" lie outside the
\* alphabet of the amounts drawn here)
FloatBodyOk(s) ==
    LET dots == {i \in 1..Len(s) : s[i] = "."}
    IN  /\ Cardinality(dots) <= 1
        /\ \A i \in 1..Len(s) : IsDigit(s[i]) \/ s[i] = "."
        /\ \E i \in 1..Len(s) : IsDigit(s[i])

FloatBodyVal(s) ==
    LET dots == {i \in 1..Len(s) : s[i] = "."}
        p    == IF dots = {} THEN Len(s) + 1 ELSE CHOOSE i \in dots : TRUE
        ip   == SubSeq(s, 1, p - 1)
        fp   == SubSeq(s, p + 1, Len(s))
    IN  Q(DigitsVal(ip) * Pow10(Len(fp)) + DigitsVal(fp), Pow10(Len(fp)))

\* float(s): [ok |-> FALSE] is ValueError
ParseFloat(s) ==
    LET t    == Strip(s)
        sign == IF t # <<>> /\ Head(t) \in {"-", "+"} THEN Head(t) ELSE ""
        body == IF sign = "" THEN t ELSE Tail(t)
    IN  IF FloatBodyOk(body)
        THEN [ok |-> TRUE,
              val |-> IF sign = "-" THEN QSub(Zero, FloatBodyVal(body))
                      ELSE FloatBodyVal(body)]
        ELSE [ok |-> FALSE, val |-> Zero]

\* decimal digits of a natural number
RECURSIVE NatText(_)
NatText(k) ==
    IF k < 10 THEN <<Digits[k + 1]>> ELSE Append(NatText(k \div 10), Digits[(k % 10) + 1])

\* the digits of k as a fraction of 10^w, without trailing zeros
RECURSIVE FracText(_, _)
FracText(k, w) ==
    IF k = 0 \/ w = 0 THEN <<>>
    ELSE <<Digits[(k \div Pow10(w - 1)) + 1]>> \o FracText(k % Pow10(w - 1), w - 1)

\* number of decimals a lowest-terms denominator 2^a 5^b needs
RECURSIVE Decimals(_)
Decimals(d) ==
    IF d = 1 THEN 0
    ELSE IF d % 10 = 0 THEN 1 + Decimals(d \div 10)
    ELSE IF d % 2 = 0 THEN 1 + Decimals(d \div 2)
    ELSE IF d % 5 = 0 THEN 1 + Decimals(d \div 5)
    ELSE 0

\* str(x) of a float x with a short finite decimal expansion: "12.0", "-1.5"
FormatFloat(q) ==
    LET w    == Decimals(q.d)
        m    == Abs(q.n) * (Pow10(w) \div q.d)
        ip   == m \div Pow10(w)
        fr   == m % Pow10(w)
        frac == IF fr = 0 THEN <<"0">> ELSE FracText(fr, w)
    IN  (IF q.n < 0 THEN <<"-">> ELSE <<>>) \o NatText(ip) \o <<".">> \o frac

(***************************************************************************)
(* The record store: CSV files.  A file is [exists, header, rows]: header  *)
(* is the sequence of column names of its first line (csv.DictReader's     *)
(* fieldnames), a row maps each column name to its cell, a text, or to     *)
(* None where the line is shorter than the header (DictReader's restval).  *)
(***************************************************************************)
NoFile == [exists |-> FALSE, header |-> <<>>, rows |-> <<>>]
File(header, rows) == [exists |-> TRUE, header |-> header, rows |-> rows]

Range(seq) == {seq[i] : i \in 1..Len(seq)}

\* dict.get(k, dflt)
Get(row, k, dflt) == IF k \in DOMAIN row THEN row[k] ELSE dflt

\* the cell csv.writer writes for a text or None
Cell(v) == IF v = None THEN <<>> ELSE v

INCOME_HEADER == <<"person", "source", "amount", "account">>
EXPENSE_HEADER ==
    <<"category", "person_or_account", "description", "is_shared",
      "frequency", "split_mode", "amount", "paid_from_account">>

\* the literals of the code
monthly == <<"m", "o", "n", "t", "h", "l", "y">>
quarterly == <<"q", "u", "a", "r", "t", "e", "r", "l", "y">>
yearly == <<"y", "e", "a", "r", "l", "y">>
income == <<"i", "n", "c", "o", "m", "e">>
equal == <<"e", "q", "u", "a", "l">>
ja == <<"j", "a">>
nein == <<"n", "e", "i", "n">>
on == <<"o", "n">>
Andreas == <<"A", "n", "d", "r", "e", "a", "s">>
Katharina == <<"K", "a", "t", "h", "a", "r", "i", "n", "a">>
KindergeldAnton ==
    <<"K", "i", "n", "d", "e", "r", "g", "e", "l", "d", " ", "A", "n", "t", "o", "n">>
UnbekanntesKonto ==
    <<"U", "n", "b", "e", "k", "a", "n", "n", "t", "e", "s", " ", "K", "o", "n", "t", "o">>
Unbekannt == <<"U", "n", "b", "e", "k", "a", "n", "n", "t">>
Unkategorisiert ==
    <<"U", "n", "k", "a", "t", "e", "g", "o", "r", "i", "s", "i", "e", "r", "t">>
ZeroText == <<"0">>

\* migrate_old_csvs: move a file of the project root into data/ once
migrate_old_csvs(fs) ==
    LET moveI == fs.oldIncomes.exists /\ ~fs.incomes.exists
        moveE == fs.oldExpenses.exists /\ ~fs.expenses.exists
    IN  [fs EXCEPT !.incomes = IF moveI THEN fs.oldIncomes ELSE @,
                   !.oldIncomes = IF moveI THEN NoFile ELSE @,
                   !.expenses = IF moveE THEN fs.oldExpenses ELSE @,
                   !.oldExpenses = IF moveE THEN NoFile ELSE @]

\* migrate_income_csv_if_needed on an existing incomes.csv
migrate_income_csv_if_needed(f) ==
    IF "account" \in Range(f.header) THEN f
    ELSE File(INCOME_HEADER,
              [i \in 1..Len(f.rows) |->
                  [person  |-> Cell(Get(f.rows[i], "person", <<>>)),
                   source  |-> Cell(Get(f.rows[i], "source", <<>>)),
                   amount  |-> Cell(Get(f.rows[i], "amount", ZeroText)),
                   account |-> <<>>]])

\* migrate_expense_csv_if_needed on an existing expenses.csv
migrate_expense_csv_if_needed(f) ==
    LET has_frequency  == "frequency" \in Range(f.header)
        has_split_mode == "split_mode" \in Range(f.header)
        has_paid_from  == "paid_from_account" \in Range(f.header)
        new_row(row) ==
            LET person_or_account == Get(row, "person_or_account", <<>>)
            IN  [category          |-> Cell(Get(row, "category", <<>>)),
                 person_or_account |-> Cell(person_or_account),
                 description       |-> Cell(Get(row, "description", <<>>)),
                 is_shared         |-> Cell(Get(row, "is_shared", nein)),
                 frequency         |->
                     IF has_frequency
                     THEN Lower(Strip(Or(Get(row, "frequency", None), monthly)))
                     ELSE monthly,
                 split_mode        |->
                     IF has_split_mode
                     THEN Lower(Strip(Or(Get(row, "split_mode", None), income)))
                     ELSE income,
                 amount            |-> Cell(Get(row, "amount", ZeroText)),
                 paid_from_account |->
                     IF has_paid_from
                     THEN Cell(Or(Get(row, "paid_from_account", None), person_or_account))
                     ELSE Cell(person_or_account)]
    IN  IF has_frequency /\ has_split_mode /\ has_paid_from THEN f
        ELSE File(EXPENSE_HEADER, [i \in 1..Len(f.rows) |-> new_row(f.rows[i])])

\* one name per line under the header "name"
DefaultAccounts ==
    << <<"G", "e", "m", "e", "i", "n", "s", "a", "m", "e", "s", " ", "F", "i", "x", "k",
          "o", "s", "t", "e", "n", "-", "K", "o", "n", "t", "o">>,
       <<"G", "e", "m", "e", "i", "n", "s", "a", "m", "e", "s", " ", "L", "e", "b", "e",
          "n", "s", "m", "i", "t", "t", "e", "l", "-", "K", "o", "n", "t", "o">>,
       <<"A", "n", "d", "r", "e", "a", "s", " ", "K", "o", "n", "t", "o">>,
       <<"K", "a", "t", "h", "a", "r", "i", "n", "a", " ", "K", "o", "n", "t", "o">>,
       <<"S", "o", "n", "s", "t", "i", "g", "e", "s", " ", "K", "o", "n", "t", "o">> >>

AccountsFile(names) == File(<<"name">>, [i \in 1..Len(names) |-> [name |-> names[i]]])

\* ensure_accounts_file
ensure_accounts_file(fs) ==
    IF fs.accounts.exists THEN fs
    ELSE [fs EXCEPT !.accounts = AccountsFile(DefaultAccounts)]

\* ensure_csv_files: create what is missing, migrate what is old
ensure_csv_files(fs) ==
    LET m == migrate_old_csvs(fs)
        i == IF ~m.incomes.exists THEN File(INCOME_HEADER, <<>>)
             ELSE migrate_income_csv_if_needed(m.incomes)
        e == IF ~m.expenses.exists THEN File(EXPENSE_HEADER, <<>>)
             ELSE migrate_expense_csv_if_needed(m.expenses)
    IN  ensure_accounts_file([m EXCEPT !.incomes = i, !.expenses = e])

(***************************************************************************)
(* Loading and saving.                                                     *)
(***************************************************************************)
\* row with row[k] = v (a dict assignment: the key is added if missing)
Put(row, k, v) == [x \in DOMAIN row \cup {k} |-> IF x = k THEN v ELSE row[x]]

\* a slip: the decimal comma not replaced
load_income_row_no_comma(row) ==
    LET raw == Get(row, "amount", None)
    IN  IF raw = None \/ Strip(raw) = <<>> THEN <<>>
        ELSE LET pf == ParseFloat(raw)
             IN  IF ~pf.ok THEN <<>>
                 ELSE << Put(Put(row, "amount", pf.val),
                             "account", Get(row, "account", <<>>)) >>

\* the loop body of load_incomes: <<row>> or, for a skipped row, <<>>
load_income_row(row) ==
    LET raw == Get(row, "amount", None)
    IN  IF raw = None \/ Strip(raw) = <<>> THEN <<>>
        ELSE LET pf == ParseFloat(ReplaceComma(raw))
             IN  IF ~pf.ok THEN <<>>
                 ELSE << Put(Put(row, "amount", pf.val),
                             "account", Get(row, "account", <<>>)) >>

RECURSIVE load_income_rows(_)
load_income_rows(rows) ==
    IF rows = <<>> THEN <<>>
    ELSE load_income_row(Head(rows)) \o load_income_rows(Tail(rows))

load_incomes(fs) ==
    IF ~fs.incomes.exists THEN <<>> ELSE load_income_rows(fs.incomes.rows)

\* a slip: a quarter taken for four months
monthly_amount_quarter4(amount, freq) ==
    IF freq = yearly THEN QDiv(amount, QInt(12))
    ELSE IF freq = quarterly THEN QDiv(amount, QInt(4))
    ELSE amount

\* amount / {12, 3, 1} by frequency
monthly_amount_of(amount, freq) ==
    IF freq = yearly THEN QDiv(amount, QInt(12))
    ELSE IF freq = quarterly THEN QDiv(amount, QInt(3))
    ELSE amount

\* the normalised frequency of a cell
load_frequency(freq_raw) ==
    LET freq == Lower(Strip(Or(freq_raw, monthly)))
    IN  IF freq \notin {monthly, quarterly, yearly} THEN monthly ELSE freq

\* the normalised split mode of a cell
load_split_mode(mode_raw) ==
    LET split_mode == Lower(Strip(Or(mode_raw, income)))
    IN  IF split_mode \notin {income, equal} THEN income ELSE split_mode

\* the loop body of load_expenses
load_expense_row(row, fieldnames) ==
    LET raw == Get(row, "amount", None)
    IN  IF raw = None \/ Strip(raw) = <<>> THEN <<>>
        ELSE LET pf == ParseFloat(ReplaceComma(raw))
                 freq == load_frequency(IF "frequency" \in fieldnames
                                        THEN Get(row, "frequency", None) ELSE None)
                 split_mode == load_split_mode(IF "split_mode" \in fieldnames
                                               THEN Get(row, "split_mode", None) ELSE None)
                 paid_from == IF "paid_from_account" \in fieldnames
                              THEN Get(row, "paid_from_account", None) ELSE None
                 r1 == Put(row, "amount", pf.val)
                 r2 == Put(r1, "frequency", freq)
                 r3 == Put(r2, "split_mode", split_mode)
                 r4 == Put(r3, "paid_from_account",
                           Or(paid_from, Get(row, "person_or_account", <<>>)))
             IN  IF ~pf.ok THEN <<>>
                 ELSE << Put(r4, "monthly_amount", monthly_amount_of(pf.val, freq)) >>

RECURSIVE load_expense_rows(_, _)
load_expense_rows(rows, fieldnames) ==
    IF rows = <<>> THEN <<>>
    ELSE load_expense_row(Head(rows), fieldnames)
             \o load_expense_rows(Tail(rows), fieldnames)

load_expenses(fs) ==
    IF ~fs.expenses.exists THEN <<>>
    ELSE load_expense_rows(fs.expenses.rows, Range(fs.expenses.header))

\* load_accounts
RECURSIVE load_account_rows(_)
load_account_rows(rows) ==
    IF rows = <<>> THEN <<>>
    ELSE LET name == Strip(Or(Get(Head(rows), "name", None), <<>>))
         IN  (IF name # <<>> THEN <<name>> ELSE <<>>) \o load_account_rows(Tail(rows))

load_accounts(fs) ==
    IF ~fs.accounts.exists THEN <<>> ELSE load_account_rows(fs.accounts.rows)

\* save_incomes: rewrite incomes.csv from loaded records
save_incomes(fs, incomes) ==
    [fs EXCEPT !.incomes =
        File(INCOME_HEADER,
             [i \in 1..Len(incomes) |->
                 [person  |-> Cell(Get(incomes[i], "person", <<>>)),
                  source  |-> Cell(Get(incomes[i], "source", <<>>)),
                  amount  |-> FormatFloat(Get(incomes[i], "amount", Zero)),
                  account |-> Cell(Get(incomes[i], "account", <<>>))]])]

\* save_expenses: rewrite expenses.csv from loaded records
save_expenses(fs, expenses) ==
    [fs EXCEPT !.expenses =
        File(EXPENSE_HEADER,
             [i \in 1..Len(expenses) |->
                 [category          |-> Cell(Get(expenses[i], "category", <<>>)),
                  person_or_account |-> Cell(Get(expenses[i], "person_or_account", <<>>)),
                  description       |-> Cell(Get(expenses[i], "description", <<>>)),
                  is_shared         |-> Cell(Get(expenses[i], "is_shared", nein)),
                  frequency         |-> Cell(Get(expenses[i], "frequency", monthly)),
                  split_mode        |-> Cell(Get(expenses[i], "split_mode", income)),
                  amount            |-> FormatFloat(Get(expenses[i], "amount", Zero)),
                  paid_from_account |-> Cell(Get(expenses[i], "paid_from_account", <<>>))]])]

(***************************************************************************)
(* The dashboard computation (dashboard, after the two loads).             *)
(***************************************************************************)
\* sum(f(r) for r in records if keep(r))
RECURSIVE SumSeq(_)
SumSeq(values) ==
    IF values = <<>> THEN Zero ELSE QAdd(Head(values), SumSeq(Tail(values)))

\* sum(r["amount"] for r in records)
sum_amount(records) == SumSeq([i \in 1..Len(records) |-> records[i]["amount"]])

\* sum(e["monthly_amount"] for e in expenses)
sum_monthly(expenses) ==
    SumSeq([i \in 1..Len(expenses) |-> expenses[i]["monthly_amount"]])

\* group_sum(records, key_field)
group_sum(records, key_field) ==
    LET key(r) == Or(Get(r, key_field, Unbekannt), Unbekannt)
        keys   == {key(records[i]) : i \in 1..Len(records)}
    IN  [k \in keys |-> sum_amount(SelectSeq(records, LAMBDA r : key(r) = k))]

\* expenses_for_chart: clones whose amount is the monthly amount
expenses_for_chart(expenses) ==
    [i \in 1..Len(expenses) |->
        Put(expenses[i], "amount",
            Get(expenses[i], "monthly_amount", Get(expenses[i], "amount", Zero)))]

\* a / b with Python's ZeroDivisionError
Div(a, b) == [err |-> b.n = 0, val |-> QDiv(a, b)]

\* a slip: the division without its guard
reduction_factor_unguarded(net_shared, shared_expenses_total) ==
    Div(net_shared, shared_expenses_total)

\* net_shared / shared_expenses_total, guarded
reduction_factor_of(net_shared, shared_expenses_total) ==
    IF QLt(Zero, shared_expenses_total) THEN Div(net_shared, shared_expenses_total)
    ELSE [err |-> FALSE, val |-> Zero]

\* the account a shared expense's shares are booked on
account_of(e) ==
    Or(Or(Get(e, "paid_from_account", None), Get(e, "person_or_account", None)),
       UnbekanntesKonto)

\* a slip: the stored split mode applied whatever the incomes are
mode_of_stored(e, income_two) == Get(e, "split_mode", income)

\* the split mode applied to a line
mode_of(e, income_two) ==
    IF QLe(income_two, Zero) THEN equal ELSE Get(e, "split_mode", income)

\* a slip: the second partner is given the whole base
equal_shares_whole(base) ==
    [a |-> QDiv(base, QInt(2)), k |-> base, err |-> FALSE]

\* base / 2.0 for each partner
equal_shares(base) ==
    [a |-> QDiv(base, QInt(2)), k |-> QDiv(base, QInt(2)), err |-> FALSE]

\* a slip: Katharina's share computed from Andreas' income
income_shares_one_ratio(base, andreas_income, katharina_income, income_two) ==
    LET ra == Div(andreas_income, income_two)
    IN  [a |-> QMul(base, ra.val), k |-> QMul(base, ra.val), err |-> ra.err]

\* base * (income / income_two) for each partner
income_shares(base, andreas_income, katharina_income, income_two) ==
    IF QLt(Zero, income_two)
    THEN LET ra == Div(andreas_income, income_two)
             rk == Div(katharina_income, income_two)
         IN  [a |-> QMul(base, ra.val), k |-> QMul(base, rk.val),
              err |-> ra.err \/ rk.err]
    ELSE equal_shares(base)

\* d[key] += v on a defaultdict(float)
AddTo(d, key, v) ==
    [x \in DOMAIN d \cup {key} |->
        IF x = key THEN QAdd(IF key \in DOMAIN d THEN d[key] ELSE Zero, v) ELSE d[x]]

EmptyDict == [x \in {} |-> Zero]

AllocInit ==
    [andreas_by_account |-> EmptyDict, katharina_by_account |-> EmptyDict,
     andreas_equal_total |-> Zero, katharina_equal_total |-> Zero,
     andreas_income_total |-> Zero, katharina_income_total |-> Zero,
     err |-> FALSE, lines |-> <<>>]

\* one iteration of the allocation loop; lines records what the iteration
\* computed (account, mode, base, a_share, k_share)
alloc_step(acc, e, reduction_factor, andreas_income, katharina_income, income_two) ==
    IF Get(e, "is_shared", None) # ja THEN acc
    ELSE LET base == QMul(e["monthly_amount"], reduction_factor)
         IN  IF QLe(base, Zero) THEN acc
             ELSE LET account == account_of(e)
                      mode == mode_of(e, income_two)
                      sh == IF mode = equal THEN equal_shares(base)
                            ELSE income_shares(base, andreas_income,
                                               katharina_income, income_two)
                  IN  [andreas_by_account |->
                           AddTo(acc.andreas_by_account, account, sh.a),
                       katharina_by_account |->
                           AddTo(acc.katharina_by_account, account, sh.k),
                       andreas_equal_total |->
                           IF mode = equal THEN QAdd(acc.andreas_equal_total, sh.a)
                           ELSE acc.andreas_equal_total,
                       katharina_equal_total |->
                           IF mode = equal THEN QAdd(acc.katharina_equal_total, sh.k)
                           ELSE acc.katharina_equal_total,
                       andreas_income_total |->
                           IF mode = equal THEN acc.andreas_income_total
                           ELSE QAdd(acc.andreas_income_total, sh.a),
                       katharina_income_total |->
                           IF mode = equal THEN acc.katharina_income_total
                           ELSE QAdd(acc.katharina_income_total, sh.k),
                       err |-> acc.err \/ sh.err,
                       lines |-> Append(acc.lines,
                                        [account |-> account, mode |-> mode,
                                         stored_mode |-> Get(e, "split_mode", income),
                                         base |-> base, a_share |-> sh.a,
                                         k_share |-> sh.k])]

RECURSIVE alloc_loop(_, _, _, _, _, _)
alloc_loop(acc, expenses, reduction_factor, andreas_income, katharina_income, income_two) ==
    IF expenses = <<>> THEN acc
    ELSE alloc_loop(alloc_step(acc, Head(expenses), reduction_factor,
                               andreas_income, katharina_income, income_two),
                    Tail(expenses), reduction_factor,
                    andreas_income, katharina_income, income_two)

\* a slip: the accounts listed in descending order
RECURSIVE sorted_descending(_)
sorted_descending(S) ==
    IF S = {} THEN <<>>
    ELSE LET m == CHOOSE x \in S : \A y \in S \ {x} : TextLess(y, x)
         IN  <<m>> \o sorted_descending(S \ {m})

\* sorted(S) for a set of texts
RECURSIVE sorted(_)
sorted(S) ==
    IF S = {} THEN <<>>
    ELSE LET m == CHOOSE x \in S : \A y \in S \ {x} : TextLess(x, y)
         IN  <<m>> \o sorted(S \ {m})

\* the accounts in the order the overview lists them
overview_accounts(andreas_by_account, katharina_by_account) ==
    sorted(DOMAIN andreas_by_account \cup DOMAIN katharina_by_account)

\* one entry of transfer_overview
overview_entry(acc, andreas_by_account, katharina_by_account) ==
    LET a == IF acc \in DOMAIN andreas_by_account THEN andreas_by_account[acc] ELSE Zero
        k == IF acc \in DOMAIN katharina_by_account THEN katharina_by_account[acc] ELSE Zero
    IN  [account |-> acc, andreas |-> a, katharina |-> k, total |-> QAdd(a, k)]

\* a slip: the offset not capped at the shared total
net_shared_uncapped(shared_expenses_total, extra_family_income) ==
    QSub(shared_expenses_total, extra_family_income)

\* max(shared_expenses_total - extra_family_income, 0.0)
net_shared_of(shared_expenses_total, extra_family_income) ==
    QMax(QSub(shared_expenses_total, extra_family_income), Zero)

\* everything dashboard computes from the loaded records: the template's
\* context, whether an exception was raised, and the loop's lines
dashboard_compute(incomes, expenses) ==
    LET IsShared(e) == Get(e, "is_shared", None) = ja
        IsAndreas(i) == Get(i, "person", None) = Andreas
        IsKatharina(i) == Get(i, "person", None) = Katharina
        IsKindergeld(i) == Get(i, "person", None) = KindergeldAnton
        IsSharedEqual(e) == IsShared(e) /\ Get(e, "split_mode", None) = equal
        IsSharedIncome(e) == IsShared(e) /\ Get(e, "split_mode", None) = income
        total_income == sum_amount(incomes)
        total_expense == sum_monthly(expenses)
        shared_expenses_total == sum_monthly(SelectSeq(expenses, IsShared))
        andreas_income == sum_amount(SelectSeq(incomes, IsAndreas))
        katharina_income == sum_amount(SelectSeq(incomes, IsKatharina))
        income_two == QAdd(andreas_income, katharina_income)
        extra_family_income == sum_amount(SelectSeq(incomes, IsKindergeld))
        net_shared == net_shared_of(shared_expenses_total, extra_family_income)
        rf == reduction_factor_of(net_shared, shared_expenses_total)
        equal_shared_before == sum_monthly(SelectSeq(expenses, IsSharedEqual))
        income_shared_before == sum_monthly(SelectSeq(expenses, IsSharedIncome))
        acc == alloc_loop(AllocInit, expenses, rf.val,
                          andreas_income, katharina_income, income_two)
        accounts_list == overview_accounts(acc.andreas_by_account,
                                           acc.katharina_by_account)
    IN  [error |-> rf.err \/ acc.err,
         lines |-> acc.lines,
         incomes |-> incomes,
         expenses |-> expenses,
         total_income |-> total_income,
         total_expense |-> total_expense,
         remaining |-> QSub(total_income, total_expense),
         income_by_person |-> group_sum(incomes, "person"),
         expense_by_category |-> group_sum(expenses_for_chart(expenses), "category"),
         shared_expenses |-> shared_expenses_total,
         equal_shared |-> QMul(equal_shared_before, rf.val),
         income_shared |-> QMul(income_shared_before, rf.val),
         extra_family_income |-> extra_family_income,
         net_shared |-> net_shared,
         reduction_factor |-> rf.val,
         andreas_income |-> andreas_income,
         katharina_income |-> katharina_income,
         income_two |-> income_two,
         andreas_share_equal |-> acc.andreas_equal_total,
         katharina_share_equal |-> acc.katharina_equal_total,
         andreas_share_income |-> acc.andreas_income_total,
         katharina_share_income |-> acc.katharina_income_total,
         andreas_share_total |->
             QAdd(acc.andreas_equal_total, acc.andreas_income_total),
         katharina_share_total |->
             QAdd(acc.katharina_equal_total, acc.katharina_income_total),
         transfer_overview |->
             [i \in 1..Len(accounts_list) |->
                 overview_entry(accounts_list[i], acc.andreas_by_account,
                                acc.katharina_by_account)]]

(***************************************************************************)
(* The requests.  fs is the file system (data/incomes.csv,                 *)
(* data/expenses.csv, data/accounts.csv and the two files of the project   *)
(* root that migrate_old_csvs moves), req the last request with the file   *)
(* system it found, resp what the handler computed for it, served the      *)
(* number of requests served so far.                                       *)
(***************************************************************************)
VARIABLES fs, req, resp, served

vars == <<fs, req, resp, served>>

Request(op, index, form) == [op |-> op, index |-> index, form |-> form, pre |-> fs]

NoForm == [none |-> TRUE]
Redirect == [status |-> "redirect"]
\* an exception left the handler: Flask answers 500
ServerError == [status |-> "error"]

\* csv.writer appending one line to a file with the given header: the
\* reader gives the i-th value to the i-th column, None to a column past
\* the end of the line
AppendLine(f, values) ==
    [f EXCEPT !.rows = Append(@, [k \in Range(f.header) |->
        LET i == CHOOSE j \in 1..Len(f.header) : f.header[j] = k
        IN  IF i <= Len(values) THEN Cell(values[i]) ELSE None])]

\* float(str(amount_raw).replace(",", ".")) of request.form.get("amount") or "0"
form_amount(form) == ParseFloat(ReplaceComma(Or(form.amount, ZeroText)))

\* a slip: the dashboard writing the loaded incomes back
dashboard_fs_resave(f) ==
    save_incomes(ensure_csv_files(f), load_incomes(ensure_csv_files(f)))

\* GET /dashboard
dashboard_fs(f) == ensure_csv_files(f)

Dashboard ==
    /\ fs' = dashboard_fs(fs)
    /\ req' = Request("dashboard", 0, NoForm)
    /\ resp' = dashboard_compute(load_incomes(fs'), load_expenses(fs'))

\* POST /add_income
add_income(f, form) ==
    LET f1 == ensure_csv_files(f)
        amount == form_amount(form)
    IN  IF ~amount.ok THEN [fs |-> f1, resp |-> ServerError]
        ELSE [fs |-> [f1 EXCEPT !.incomes =
                         AppendLine(@, <<form.person, form.source,
                                         FormatFloat(amount.val),
                                         Or(form.income_account, <<>>)>>)],
              resp |-> Redirect]

\* the fields of the expense forms, as add_expense and edit_expense read them
expense_fields(form) ==
    LET category_custom == Strip(Or(form.category_custom, <<>>))
        category0 == Or(form.category, <<>>)
        category1 == IF category_custom # <<>> THEN category_custom ELSE category0
        frequency == Lower(Strip(Or(form.frequency, monthly)))
        split_mode == Lower(Strip(Or(form.split_mode, income)))
    IN  [category |-> IF category1 = <<>> THEN Unkategorisiert ELSE category1,
         person_or_account |-> form.person_or_account,
         paid_from_account |-> form.paid_from_account,
         description |-> form.description,
         is_shared |-> IF form.is_shared = on THEN ja ELSE nein,
         frequency |-> IF frequency \notin {monthly, quarterly, yearly}
                       THEN monthly ELSE frequency,
         split_mode |-> IF split_mode \notin {income, equal} THEN income ELSE split_mode]

\* POST /add_expense
add_expense(f, form) ==
    LET f1 == ensure_csv_files(f)
        x == expense_fields(form)
        amount == form_amount(form)
    IN  IF ~amount.ok THEN [fs |-> f1, resp |-> ServerError]
        ELSE [fs |-> [f1 EXCEPT !.expenses =
                         AppendLine(@, <<x.category, x.person_or_account, x.description,
                                         x.is_shared, x.frequency, x.split_mode,
                                         FormatFloat(amount.val), x.paid_from_account>>)],
              resp |-> Redirect]

\* POST /edit_income/<index>
edit_income(f, index, form) ==
    LET f1 == ensure_csv_files(f)
        incomes == load_incomes(f1)
        amount == form_amount(form)
        edited == Put(Put(Put(Put(incomes[index + 1],
                      "person", form.person), "source", form.source),
                      "amount", amount.val), "account", Or(form.income_account, <<>>))
    IN  IF index < 0 \/ index >= Len(incomes) THEN [fs |-> f1, resp |-> Redirect]
        ELSE IF ~amount.ok THEN [fs |-> f1, resp |-> ServerError]
        ELSE [fs |-> save_incomes(f1, [incomes EXCEPT ![index + 1] = edited]),
              resp |-> Redirect]

\* POST /edit_expense/<index>
edit_expense(f, index, form) ==
    LET f1 == ensure_csv_files(f)
        expenses == load_expenses(f1)
        x == expense_fields(form)
        amount == form_amount(form)
        e0 == expenses[index + 1]
        edited == Put(Put(Put(Put(Put(Put(Put(Put(e0,
                      "category", x.category),
                      "person_or_account", x.person_or_account),
                      "paid_from_account", x.paid_from_account),
                      "description", x.description),
                      "is_shared", x.is_shared),
                      "frequency", x.frequency),
                      "split_mode", x.split_mode),
                      "amount", amount.val)
    IN  IF index < 0 \/ index >= Len(expenses) THEN [fs |-> f1, resp |-> Redirect]
        ELSE IF ~amount.ok THEN [fs |-> f1, resp |-> ServerError]
        ELSE [fs |-> save_expenses(f1, [expenses EXCEPT ![index + 1] = edited]),
              resp |-> Redirect]

\* append_account(name)
append_account(f, name0) ==
    LET name == Strip(Or(name0, <<>>))
    IN  IF name = <<>> THEN f
        ELSE IF name \in Range(load_accounts(f)) THEN f
        ELSE [f EXCEPT !.accounts = AppendLine(@, <<name>>)]

\* POST /accounts
accounts_post(f, form) ==
    [fs |-> append_account(ensure_csv_files(f), form.name), resp |-> Redirect]

\* a slip: the records flagged as changed but left as they were
rename_account_unapplied(records, field, old_name, new_name) ==
    [records |-> records,
     changed |-> \E i \in 1..Len(records) : Get(records[i], field, None) = old_name]

\* the loaded records with the account field renamed where it is old_name;
\* changed tells whether any record was
rename_account(records, field, old_name, new_name) ==
    [records |-> [i \in 1..Len(records) |->
                     IF Get(records[i], field, None) = old_name
                     THEN Put(records[i], field, new_name) ELSE records[i]],
     changed |-> \E i \in 1..Len(records) : Get(records[i], field, None) = old_name]

\* POST /accounts/edit/<index>
edit_account(f, index, form) ==
    LET f1 == ensure_csv_files(f)
        accounts == load_accounts(f1)
        old_name == accounts[index + 1]
        new_name == Strip(Or(form.name, <<>>))
        f2 == [f1 EXCEPT !.accounts =
                  AccountsFile([accounts EXCEPT ![index + 1] = new_name])]
        inc == rename_account(load_incomes(f2), "account", old_name, new_name)
        f3 == IF inc.changed THEN save_incomes(f2, inc.records) ELSE f2
        exp == rename_account(load_expenses(f3), "paid_from_account", old_name, new_name)
        f4 == IF exp.changed THEN save_expenses(f3, exp.records) ELSE f3
    IN  IF index < 0 \/ index >= Len(accounts) THEN [fs |-> f1, resp |-> Redirect]
        ELSE IF new_name # <<>> /\ new_name # old_name THEN [fs |-> f4, resp |-> Redirect]
        ELSE [fs |-> f1, resp |-> Redirect]

(***************************************************************************)
(* Sample rows and forms.                                                  *)
(***************************************************************************)
\* rows of an incomes.csv in the current columns: numeric amounts, a decimal
\* comma, a short line (account None) and a blank amount
IncomeSamples ==
    << [person |-> <<"A", "n", "d", "r", "e", "a", "s">>, source |-> <<"J", "o", "b">>,
        amount |-> <<"3", "0">>, account |-> <<"X", "a">>],
       [person |-> <<"K", "a", "t", "h", "a", "r", "i", "n", "a">>,
        source |-> <<"J", "o", "b">>, amount |-> <<"2", "0">>,
        account |-> <<>>],
       [person |-> <<"K", "i", "n", "d", "e", "r", "g", "e", "l", "d", " ", "A", "n", "t", "o", "n">>,
        source |-> <<"A", "m", "t">>, amount |-> <<"6">>, account |-> <<"b">>],
       [person |-> <<"O", "m", "a">>, source |-> <<>>, amount |-> <<"0", ",", "5">>,
        account |-> None],
       [person |-> <<"A", "n", "d", "r", "e", "a", "s">>,
        source |-> <<"B", "o", "n", "u", "s">>, amount |-> <<" ">>,
        account |-> <<"X", "a">>] >>

\* rows of an expenses.csv in the current columns: both split modes, the
\* three frequencies, unnormalised and unrecognised enum cells, a negative
\* and a zero amount, a non-numeric amount and a short line
ExpenseSamples ==
    << [category |-> <<"M", "i", "e", "t", "e">>, person_or_account |-> <<"b">>,
        description |-> <<>>, is_shared |-> <<"j", "a">>,
        frequency |-> <<"m", "o", "n", "t", "h", "l", "y">>,
        split_mode |-> <<"i", "n", "c", "o", "m", "e">>, amount |-> <<"5">>,
        paid_from_account |-> <<"X", "a">>],
       [category |-> <<"S", "t", "r", "o", "m">>, person_or_account |-> <<"b">>,
        description |-> <<>>, is_shared |-> <<"j", "a">>,
        frequency |-> <<"m", "o", "n", "t", "h", "l", "y">>,
        split_mode |-> <<"e", "q", "u", "a", "l">>, amount |-> <<"4">>,
        paid_from_account |-> <<"b">>],
       [category |-> <<"A", "u", "t", "o">>, person_or_account |-> <<"X", "a">>,
        description |-> <<"K", "f", "z">>, is_shared |-> <<"j", "a">>,
        frequency |-> <<" ", "Y", "e", "a", "r", "l", "y">>,
        split_mode |-> <<"E", "q", "u", "a", "l">>, amount |-> <<"1", "2">>,
        paid_from_account |-> <<>>],
       [category |-> <<"A", "u", "t", "o">>, person_or_account |-> <<"b">>,
        description |-> <<>>, is_shared |-> <<"j", "a">>,
        frequency |-> <<"m", "o", "n", "t", "h", "l", "y">>,
        split_mode |-> <<"e", "q", "u", "a", "l">>, amount |-> <<"-", "2">>,
        paid_from_account |-> <<"X", "a">>],
       [category |-> <<"S", "t", "r", "o", "m">>, person_or_account |-> <<"b">>,
        description |-> <<>>, is_shared |-> <<"n", "e", "i", "n">>,
        frequency |-> <<"q", "u", "a", "r", "t", "e", "r", "l", "y">>,
        split_mode |-> <<"i", "n", "c", "o", "m", "e">>, amount |-> <<"9">>,
        paid_from_account |-> <<"b">>],
       [category |-> <<>>, person_or_account |-> <<>>, description |-> <<>>,
        is_shared |-> <<"j", "a">>, frequency |-> <<"w", "e", "e", "k", "l", "y">>,
        split_mode |-> <<"h", "a", "l", "f">>, amount |-> <<"1", ",", "5">>,
        paid_from_account |-> <<>>],
       [category |-> <<"M", "i", "e", "t", "e">>, person_or_account |-> <<"b">>,
        description |-> <<>>, is_shared |-> <<"j", "a">>,
        frequency |-> <<"m", "o", "n", "t", "h", "l", "y">>,
        split_mode |-> <<"i", "n", "c", "o", "m", "e">>, amount |-> <<"a", "b", "c">>,
        paid_from_account |-> <<"b">>],
       [category |-> <<"S", "t", "r", "o", "m">>, person_or_account |-> <<"X", "a">>,
        description |-> <<>>, is_shared |-> <<"j", "a">>, frequency |-> <<>>,
        split_mode |-> <<>>, amount |-> <<"0">>, paid_from_account |-> <<"X", "a">>],
       [category |-> <<"A", "u", "t", "o">>, person_or_account |-> <<"b">>,
        description |-> <<>>, is_shared |-> <<"j", "a">>,
        frequency |-> <<"y", "e", "a", "r", "l", "y">>,
        split_mode |-> <<"e", "q", "u", "a", "l">>, amount |-> None,
        paid_from_account |-> None] >>

\* the sequences over S of length at most n
SeqsUpTo(S, n) == UNION {[1..k -> S] : k \in 0..n}

\* the rows of list at the indexes in I, in the list's order
RECURSIVE PickRows(_, _, _)
PickRows(list, I, i) ==
    IF i > Len(list) THEN <<>>
    ELSE (IF i \in I THEN <<list[i]>> ELSE <<>>) \o PickRows(list, I, i + 1)

\* the selections of at most n rows of list
SelectionsUpTo(list, n) ==
    {PickRows(list, I, 1) : I \in {J \in SUBSET (1..Len(list)) : Cardinality(J) <= n}}

FileSystem(incomes, expenses, accounts, oldIncomes, oldExpenses) ==
    [incomes |-> incomes, expenses |-> expenses, accounts |-> accounts,
     oldIncomes |-> oldIncomes, oldExpenses |-> oldExpenses]

Start == [op |-> "start", index |-> 0, form |-> NoForm,
          pre |-> FileSystem(NoFile, NoFile, NoFile, NoFile, NoFile)]

(***************************************************************************)
(* The engine specification: the dashboard over every store in the current *)
(* columns whose rows are drawn from the samples.                          *)
(***************************************************************************)
InitEngine ==
    /\ \E incomes \in SelectionsUpTo(IncomeSamples, MaxIncomes) :
       \E expenses \in SeqsUpTo(Range(ExpenseSamples), MaxExpenses) :
           fs = FileSystem(File(INCOME_HEADER, incomes), File(EXPENSE_HEADER, expenses),
                           AccountsFile(DefaultAccounts), NoFile, NoFile)
    /\ req = Start
    /\ resp = Redirect
    /\ served = 0

NextEngine == Dashboard /\ UNCHANGED served

SpecEngine == InitEngine /\ [][NextEngine]_vars

(***************************************************************************)
(* What the claims speak of, stated from the dashboard's inputs: the       *)
(* loaded lists are resp.incomes and resp.expenses.                        *)
(***************************************************************************)
Dashed == req.op = "dashboard"

QHalf(q) == QMul(q, [n |-> 1, d |-> 2])
IsPos(q) == q.n > 0
IsNeg(q) == q.n < 0

SharedExpenses == SelectSeq(resp.expenses, LAMBDA e : e["is_shared"] = ja)
PersonIncomes(p) == SelectSeq(resp.incomes, LAMBDA i : i["person"] = p)
Amounts(rows) == [i \in 1..Len(rows) |-> rows[i]["amount"]]
Monthlies(rows) == [i \in 1..Len(rows) |-> rows[i]["monthly_amount"]]

IncomeTwo == QAdd(SumSeq(Amounts(PersonIncomes(Andreas))),
                  SumSeq(Amounts(PersonIncomes(Katharina))))
ExtraFamilyIncome == SumSeq(Amounts(PersonIncomes(KindergeldAnton)))
SharedTotal == SumSeq(Monthlies(SharedExpenses))
NetShared ==
    LET x == QSub(SharedTotal, ExtraFamilyIncome) IN IF IsNeg(x) THEN Zero ELSE x
ShareSum == QAdd(resp.andreas_share_total, resp.katharina_share_total)

AllSharedPositive ==
    \A i \in 1..Len(SharedExpenses) : IsPos(SharedExpenses[i]["monthly_amount"])
NoSharedNegative ==
    \A i \in 1..Len(SharedExpenses) : ~IsNeg(SharedExpenses[i]["monthly_amount"])
AllSharedEqualMode ==
    \A i \in 1..Len(SharedExpenses) : SharedExpenses[i]["split_mode"] = equal

\* the shared expenses a share is allocated for: those with a positive
\* reduced amount
Allocated ==
    SelectSeq(SharedExpenses,
              LAMBDA e : IsPos(QMul(e["monthly_amount"], resp.reduction_factor)))

\* C1 Conservation: when income_two > 0 and every shared expense has a
\* positive monthly amount, the two partners' share totals add up to
\* net_shared = max(shared_total - extra_family_income, 0).
C1_Conservation ==
    (Dashed /\ IsPos(IncomeTwo) /\ AllSharedPositive) => ShareSum = NetShared

\* C1 happens: both split modes allocated under a partial offset
C1_Witness ==
    /\ Dashed /\ IsPos(IncomeTwo) /\ AllSharedPositive
    /\ IsPos(ExtraFamilyIncome) /\ IsPos(NetShared)
    /\ \E i, j \in 1..Len(resp.lines) :
           resp.lines[i].mode = income /\ resp.lines[j].mode = equal
    /\ resp.andreas_share_total # resp.katharina_share_total

\* C2 as stated: whenever all shared expenses are split equally, each
\* partner's total is net_shared / 2, whatever the signs of the amounts.
C2_EqualSplitAnySign ==
    (Dashed /\ AllSharedEqualMode) =>
        /\ resp.andreas_share_total = QHalf(NetShared)
        /\ resp.katharina_share_total = QHalf(NetShared)

\* C2 amended: when all shared expenses are split equally and none of them
\* has a negative monthly amount, each partner's total is net_shared / 2.
C2_EqualSplitExact ==
    (Dashed /\ AllSharedEqualMode /\ NoSharedNegative) =>
        /\ resp.andreas_share_total = QHalf(NetShared)
        /\ resp.katharina_share_total = QHalf(NetShared)

\* C2 happens: two equal-mode lines allocated, no negative shared amount
C2_Witness ==
    /\ Dashed /\ AllSharedEqualMode /\ NoSharedNegative
    /\ Len(resp.lines) >= 2 /\ IsPos(NetShared)
    /\ resp.andreas_share_total = QHalf(NetShared)

\* C3 Zero-income guard: with income_two = 0 every shared expense with a
\* positive reduced amount is allocated base / 2 to each partner whatever
\* its stored split mode, no division fails, and the income-mode totals
\* stay 0.
C3_ZeroIncomeGuard ==
    (Dashed /\ IncomeTwo = Zero) =>
        /\ ~resp.error
        /\ Len(resp.lines) = Len(Allocated)
        /\ \A i \in 1..Len(resp.lines) :
               LET base == QMul(Allocated[i]["monthly_amount"], resp.reduction_factor)
               IN  /\ resp.lines[i].a_share = QHalf(base)
                   /\ resp.lines[i].k_share = QHalf(base)
        /\ resp.andreas_share_income = Zero
        /\ resp.katharina_share_income = Zero

\* C3 happens: an income-mode line allocated with no partner income
C3_Witness ==
    /\ Dashed /\ IncomeTwo = Zero
    /\ \E i \in 1..Len(resp.lines) :
           resp.lines[i].stored_mode = income /\ IsPos(resp.lines[i].a_share)

\* C4 Offset boundary: when extra_family_income >= shared_total, net_shared
\* is 0, every amount of transfer_overview is 0 and both share totals are 0.
C4_OffsetBoundary ==
    (Dashed /\ QLe(SharedTotal, ExtraFamilyIncome)) =>
        /\ resp.net_shared = Zero
        /\ \A i \in 1..Len(resp.transfer_overview) :
               /\ resp.transfer_overview[i].andreas = Zero
               /\ resp.transfer_overview[i].katharina = Zero
               /\ resp.transfer_overview[i].total = Zero
        /\ resp.andreas_share_total = Zero
        /\ resp.katharina_share_total = Zero

\* C4 happens: positive shared expenses fully offset by the family income
C4_Witness ==
    /\ Dashed /\ IsPos(SharedTotal) /\ QLt(SharedTotal, ExtraFamilyIncome)
    /\ IsPos(IncomeTwo)

\* the account of a shared expense: paid_from_account, else
\* person_or_account, else the sentinel
AccountOfExpense(e) ==
    IF e["paid_from_account"] \notin {None, <<>>} THEN e["paid_from_account"]
    ELSE IF e["person_or_account"] \notin {None, <<>>} THEN e["person_or_account"]
    ELSE UnbekanntesKonto

\* C5 Transfer overview: one entry per account a share was accumulated on,
\* in strictly ascending order of account name, each total the sum of its
\* two amounts, and the totals adding up to the two partners' share totals.
C5_TransferOverview ==
    Dashed =>
        LET tv == resp.transfer_overview
        IN  /\ {tv[i].account : i \in 1..Len(tv)}
                   = {AccountOfExpense(Allocated[i]) : i \in 1..Len(Allocated)}
            /\ \A i \in 1..Len(tv) - 1 : TextLess(tv[i].account, tv[i + 1].account)
            /\ \A i \in 1..Len(tv) : tv[i].total = QAdd(tv[i].andreas, tv[i].katharina)
            /\ SumSeq([i \in 1..Len(tv) |-> tv[i].total]) = ShareSum

\* C5 happens: shares accumulated on two accounts, the one whose name starts
\* with an upper-case letter listed before the one in lower case
C5_Witness ==
    /\ Dashed
    /\ Len(resp.lines) >= 2
    /\ Len(resp.transfer_overview) = 2
    /\ resp.transfer_overview[1].account \in {UnbekanntesKonto, <<"X", "a">>}
    /\ resp.transfer_overview[2].account = <<"b">>
    /\ IsPos(resp.transfer_overview[2].total)

\* a cell that holds a number: after surrounding blanks and an optional
\* sign, digits with at most one decimal separator, "," or "."
IsDecimalText(c) ==
    LET t == Strip(c)
        body == IF t # <<>> /\ t[1] \in {"+", "-"} THEN Tail(t) ELSE t
        seps == {i \in 1..Len(body) : body[i] \in {",", "."}}
    IN  /\ \A i \in 1..Len(body) : body[i] \in Range(Digits) \cup {",", "."}
        /\ Cardinality(seps) <= 1
        /\ \E i \in 1..Len(body) : body[i] \in Range(Digits)

\* the stored rows whose amount is present, non-empty and numeric
WellFormed(rows) ==
    SelectSeq(rows, LAMBDA r :
        /\ "amount" \in DOMAIN r
        /\ r["amount"] # None
        /\ IsDecimalText(r["amount"]))

SameCells(loaded, stored, columns) ==
    \A c \in columns : c \in DOMAIN stored => loaded[c] = stored[c]

\* the value a cell is normalised to: its lower-case, stripped text when
\* that is one of the known values, else the default
Normalised(cell, known, default) ==
    IF cell # None /\ Lower(Strip(cell)) \in known THEN Lower(Strip(cell)) ELSE default

\* C6 Normalization: every loaded expense carries monthly_amount = amount/12
\* (yearly), amount/3 (quarterly) or amount (monthly); an unrecognised or
\* missing frequency is loaded as 'monthly', an unrecognised or missing
\* split_mode as 'income', and no row is rejected for it.
C6_Normalization ==
    Dashed =>
        LET stored == WellFormed(fs.expenses.rows)
            twelfth == [n |-> 1, d |-> 12]
            third == [n |-> 1, d |-> 3]
        IN  /\ Len(resp.expenses) = Len(stored)
            /\ \A i \in 1..Len(resp.expenses) :
                   LET e == resp.expenses[i]
                   IN  /\ e["frequency"] =
                              Normalised(stored[i]["frequency"],
                                         {monthly, quarterly, yearly}, monthly)
                       /\ e["split_mode"] =
                              Normalised(stored[i]["split_mode"], {income, equal}, income)
                       /\ e["frequency"] = yearly =>
                              e["monthly_amount"] = QMul(e["amount"], twelfth)
                       /\ e["frequency"] = quarterly =>
                              e["monthly_amount"] = QMul(e["amount"], third)
                       /\ e["frequency"] = monthly => e["monthly_amount"] = e["amount"]

\* C6 happens: a row stored with frequency " Yearly" is loaded as yearly
\* with a twelfth of its amount, beside a row whose frequency and split mode
\* are unknown words
C6_Witness ==
    /\ Dashed
    /\ \E i \in 1..Len(resp.expenses) :
           /\ resp.expenses[i]["frequency"] = yearly
           /\ resp.expenses[i]["amount"] = QInt(12)
           /\ resp.expenses[i]["monthly_amount"] = QInt(1)
    /\ \E i \in 1..Len(fs.expenses.rows) :
           /\ fs.expenses.rows[i]["frequency"] \notin {None, <<>>, monthly, quarterly, yearly}
           /\ Lower(Strip(fs.expenses.rows[i]["frequency"])) \notin {monthly, quarterly, yearly}
           /\ fs.expenses.rows[i]["split_mode"] \notin {None, <<>>, income, equal}
           /\ IsDecimalText(fs.expenses.rows[i]["amount"])
    /\ Len(resp.expenses) = 2

\* C7 Totality: the dashboard computation raises no error; with
\* shared_total = 0 the reduction factor is 0 and nothing is allocated; with
\* empty lists every total is 0 and transfer_overview is empty.
C7_Totality ==
    Dashed =>
        /\ ~resp.error
        /\ SharedTotal = Zero =>
               /\ resp.reduction_factor = Zero
               /\ resp.lines = <<>>
               /\ resp.andreas_share_total = Zero
               /\ resp.katharina_share_total = Zero
        /\ (resp.incomes = <<>> /\ resp.expenses = <<>>) =>
               /\ resp.total_income = Zero /\ resp.total_expense = Zero
               /\ resp.remaining = Zero /\ resp.shared_expenses = Zero
               /\ resp.net_shared = Zero
               /\ resp.andreas_share_total = Zero
               /\ resp.katharina_share_total = Zero
               /\ resp.transfer_overview = <<>>

\* C7 happens: shared expenses that add up to 0
C7_Witness ==
    /\ Dashed
    /\ ~resp.error
    /\ Len(SharedExpenses) >= 1
    /\ SharedTotal = Zero
    /\ IsPos(IncomeTwo)

\* C9 Malformed rows: the loaders return exactly the stored rows whose
\* amount is present, non-empty and numeric ("," accepted as the decimal
\* separator), in their stored order; the other rows are left out.
C9_MalformedRows ==
    Dashed =>
        LET incomes == WellFormed(fs.incomes.rows)
            expenses == WellFormed(fs.expenses.rows)
        IN  /\ Len(resp.incomes) = Len(incomes)
            /\ \A i \in 1..Len(resp.incomes) :
                   SameCells(resp.incomes[i], incomes[i], {"person", "source"})
            /\ Len(resp.expenses) = Len(expenses)
            /\ \A i \in 1..Len(resp.expenses) :
                   SameCells(resp.expenses[i], expenses[i],
                             {"category", "person_or_account", "description", "is_shared"})

\* C9 happens: a blank income amount, a decimal comma, a non-numeric and a
\* missing expense amount among the stored rows
C9_Witness ==
    /\ Dashed
    /\ Len(resp.incomes) >= 1 /\ Len(resp.incomes) < Len(fs.incomes.rows)
    /\ \E i \in 1..Len(fs.incomes.rows) : \E j \in 1..Len(fs.incomes.rows[i]["amount"]) :
           fs.incomes.rows[i]["amount"][j] = ","
    /\ Len(fs.expenses.rows) = 2 /\ resp.expenses = <<>>
    /\ fs.expenses.rows[1]["amount"] = None
    /\ fs.expenses.rows[2]["amount"] # None

(***************************************************************************)
(* The store specification: every handler that writes, and the dashboard,  *)
(* from stores that are missing, in old columns, or current with           *)
(* well-formed and malformed rows.                                         *)
(***************************************************************************)

OLD_INCOME_HEADER == <<"person", "source", "amount">>
OLD_EXPENSE_HEADER ==
    <<"category", "person_or_account", "description", "is_shared", "amount">>

OldIncomeRow ==
    [person |-> <<"A", "n", "d", "r", "e", "a", "s">>, source |-> <<"J", "o", "b">>,
     amount |-> <<"3", "0">>]
BadIncomeRow ==
    [person |-> <<"A", "n", "d", "r", "e", "a", "s">>, source |-> <<"J", "o", "b">>,
     amount |-> <<"a", "b", "c">>,
     account |-> <<"S", "o", "n", "s", "t", "i", "g", "e", "s", " ", "K", "o", "n", "t", "o">>]
GoodIncomeRow ==
    [person |-> <<"K", "a", "t", "h", "a", "r", "i", "n", "a">>,
     source |-> <<"J", "o", "b">>, amount |-> <<"2", "0", ",", "5">>,
     account |-> <<"S", "o", "n", "s", "t", "i", "g", "e", "s", " ", "K", "o", "n", "t", "o">>]
OldExpenseRow ==
    [category |-> <<"M", "i", "e", "t", "e">>, person_or_account |-> <<"b">>,
     description |-> <<>>, is_shared |-> <<"j", "a">>, amount |-> <<"5">>]
BadExpenseRow ==
    [category |-> <<"S", "t", "r", "o", "m">>, person_or_account |-> <<"b">>,
     description |-> <<>>, is_shared |-> <<"j", "a">>,
     frequency |-> <<"m", "o", "n", "t", "h", "l", "y">>,
     split_mode |-> <<"e", "q", "u", "a", "l">>, amount |-> <<>>,
     paid_from_account |-> <<"b">>]
GoodExpenseRow ==
    [category |-> <<"A", "u", "t", "o">>,
     person_or_account |-> <<"S", "o", "n", "s", "t", "i", "g", "e", "s", " ", "K", "o", "n", "t", "o">>,
     description |-> <<"K", "f", "z">>, is_shared |-> <<"j", "a">>,
     frequency |-> <<" ", "Y", "e", "a", "r", "l", "y">>,
     split_mode |-> <<"e", "q", "u", "a", "l">>, amount |-> <<"1", "2">>,
     paid_from_account |-> <<>>]

\* a line of incomes.csv with three cells: DictReader gives account None
ShortIncomeRow ==
    [person |-> <<"O", "m", "a">>, source |-> <<>>, amount |-> <<"0", ",", "5">>,
     account |-> None]

OldIncomes == File(OLD_INCOME_HEADER, <<OldIncomeRow>>)
OldExpenses == File(OLD_EXPENSE_HEADER, <<OldExpenseRow>>)

\* the stores a first request may find: nothing at all; files of the old
\* layout in the project root; files in old columns under data/; current
\* files with a malformed row before a well-formed one; current files;
\* current files with a short income line before a well-formed one
Stores ==
    {FileSystem(NoFile, NoFile, NoFile, NoFile, NoFile),
     FileSystem(NoFile, NoFile, NoFile, OldIncomes, OldExpenses),
     FileSystem(OldIncomes, OldExpenses, NoFile, NoFile, NoFile),
     FileSystem(File(INCOME_HEADER, <<BadIncomeRow, GoodIncomeRow>>),
                File(EXPENSE_HEADER, <<BadExpenseRow, GoodExpenseRow>>),
                AccountsFile(DefaultAccounts), NoFile, NoFile),
     FileSystem(File(INCOME_HEADER, <<GoodIncomeRow>>),
                File(EXPENSE_HEADER, <<GoodExpenseRow>>),
                AccountsFile(DefaultAccounts), OldIncomes, NoFile),
     FileSystem(File(INCOME_HEADER, <<ShortIncomeRow, GoodIncomeRow>>),
                File(EXPENSE_HEADER, <<GoodExpenseRow>>),
                AccountsFile(DefaultAccounts), NoFile, NoFile)}

\* the forms posted: one valid, one whose amount float() rejects
IncomeForms ==
    {[person |-> <<"K", "i", "n", "d", "e", "r", "g", "e", "l", "d", " ", "A", "n", "t", "o", "n">>,
      source |-> <<"A", "m", "t">>, amount |-> <<"2", ",", "5", "0">>,
      income_account |-> None],
     [person |-> <<"A", "n", "d", "r", "e", "a", "s">>, source |-> None,
      amount |-> <<"x">>, income_account |-> <<"b">>]}

ExpenseForms ==
    {[category |-> <<>>, category_custom |-> <<" ", "A", "u", "t", "o">>,
      person_or_account |-> <<"b">>, paid_from_account |-> <<"X", "a">>,
      description |-> None, is_shared |-> <<"o", "n">>,
      frequency |-> <<"Q", "u", "a", "r", "t", "e", "r", "l", "y">>,
      split_mode |-> <<"e", "q", "u", "a", "l">>, amount |-> <<"9">>],
     [category |-> <<"S", "t", "r", "o", "m">>, category_custom |-> None,
      person_or_account |-> None, paid_from_account |-> None, description |-> None,
      is_shared |-> None, frequency |-> <<"w", "e", "e", "k", "l", "y">>,
      split_mode |-> None, amount |-> <<"1", ".", "2", ".", "3">>]}

AccountForms ==
    {[name |-> <<" ", "X", "a", " ">>], [name |-> <<"S", "o", "n", "s", "t", "i", "g", "e", "s", " ", "K", "o", "n", "t", "o">>], [name |-> None]}

\* <int:index> of the routes matches no negative number
Indexes == 0..MaxRows

Init ==
    /\ fs \in Stores
    /\ req = Start
    /\ resp = Redirect
    /\ served = 0

AddIncome ==
    \E form \in IncomeForms :
        /\ Len(ensure_csv_files(fs).incomes.rows) < MaxRows
        /\ \E r \in {add_income(fs, form)} : fs' = r.fs /\ resp' = r.resp
        /\ req' = Request("add_income", 0, form)

AddExpense ==
    \E form \in ExpenseForms :
        /\ Len(ensure_csv_files(fs).expenses.rows) < MaxRows
        /\ \E r \in {add_expense(fs, form)} : fs' = r.fs /\ resp' = r.resp
        /\ req' = Request("add_expense", 0, form)

EditIncome ==
    \E index \in Indexes, form \in IncomeForms :
        /\ \E r \in {edit_income(fs, index, form)} : fs' = r.fs /\ resp' = r.resp
        /\ req' = Request("edit_income", index, form)

EditExpense ==
    \E index \in Indexes, form \in ExpenseForms :
        /\ \E r \in {edit_expense(fs, index, form)} : fs' = r.fs /\ resp' = r.resp
        /\ req' = Request("edit_expense", index, form)

Accounts ==
    \E form \in AccountForms :
        /\ Len(ensure_csv_files(fs).accounts.rows) < Len(DefaultAccounts) + MaxNewAccounts
        /\ \E r \in {accounts_post(fs, form)} : fs' = r.fs /\ resp' = r.resp
        /\ req' = Request("accounts", 0, form)

EditAccount ==
    \E index \in {Len(DefaultAccounts) - 1, Len(DefaultAccounts) + MaxNewAccounts},
       form \in AccountForms :
        /\ \E r \in {edit_account(fs, index, form)} : fs' = r.fs /\ resp' = r.resp
        /\ req' = Request("edit_account", index, form)

\* one more request served, while the run may go on
Serve == served < MaxRequests /\ served' = served + 1

Next ==
    \/ Serve /\ Dashboard
    \/ Serve /\ AddIncome
    \/ Serve /\ AddExpense
    \/ Serve /\ EditIncome
    \/ Serve /\ EditExpense
    \/ Serve /\ Accounts
    \/ Serve /\ EditAccount

Spec == Init /\ [][Next]_vars

(***************************************************************************)
(* Claims about the store.                                                 *)
(***************************************************************************)
\* the three files exist under data/ and incomes.csv and expenses.csv have
\* the current columns: ensure_csv_files has nothing to create or migrate
Current(f) ==
    /\ f.incomes.exists /\ f.expenses.exists /\ f.accounts.exists
    /\ "account" \in Range(f.incomes.header)
    /\ {"frequency", "split_mode", "paid_from_account"} \subseteq Range(f.expenses.header)

\* C8 as stated: in every store state, a missing file or a file in old
\* columns included, the files are the same after the dashboard request as
\* before it.
C8_NoWriteAnyStore == Dashed => fs = req.pre

\* C8 amended: when the three files exist and incomes.csv and expenses.csv
\* have the current columns, the files are the same after the dashboard
\* request as before it.
C8_NoWriteCurrentStore == (Dashed /\ Current(req.pre)) => fs = req.pre

\* C8 happens: the dashboard served from a current store that holds a
\* malformed row and a file of the old layout in the project root
C8_Witness ==
    /\ Dashed /\ Current(req.pre) /\ fs = req.pre
    /\ Len(resp.incomes) >= 1
    /\ \/ Len(resp.incomes) < Len(fs.incomes.rows)
       \/ fs.oldIncomes.exists

\* the value of an amount cell
AmountValue(c) == ParseFloat(ReplaceComma(c)).val

\* two stored income rows hold the same record
SameIncome(r, t) ==
    /\ \A c \in {"person", "source", "account"} : r[c] = t[c]
    /\ r["amount"] = t["amount"]
           \/ (IsDecimalText(r["amount"]) /\ IsDecimalText(t["amount"])
               /\ AmountValue(r["amount"]) = AmountValue(t["amount"]))

\* two stored expense rows hold the same record
SameExpense(r, t) ==
    /\ \A c \in {"category", "person_or_account", "description", "is_shared"} : r[c] = t[c]
    /\ r["amount"] = t["amount"]
           \/ (IsDecimalText(r["amount"]) /\ IsDecimalText(t["amount"])
               /\ AmountValue(r["amount"]) = AmountValue(t["amount"]))

\* the position in rows of the k-th row that is loaded
RECURSIVE StoredPosition(_, _, _)
StoredPosition(rows, k, from) ==
    IF WellFormed(<<rows[from]>>) # <<>>
    THEN IF k = 1 THEN from ELSE StoredPosition(rows, k - 1, from + 1)
    ELSE StoredPosition(rows, k, from + 1)

\* C10 Edit in place: a POST to edit_income or edit_expense at an accepted
\* index replaces the fields of that record and leaves every other stored
\* row as it was, so the stored rows keep their number and order; an index
\* past the loaded records changes nothing in the store.
C10_EditInPlace ==
    /\ (req.op = "edit_income" /\ Current(req.pre) /\ resp = Redirect) =>
           LET before == req.pre.incomes.rows
               after == fs.incomes.rows
           IN  IF req.index < Len(WellFormed(before))
               THEN /\ Len(after) = Len(before)
                    /\ \A j \in 1..Len(before) :
                           j # StoredPosition(before, req.index + 1, 1)
                               => SameIncome(after[j], before[j])
                    /\ fs.expenses = req.pre.expenses
               ELSE fs = req.pre
    /\ (req.op = "edit_expense" /\ Current(req.pre) /\ resp = Redirect) =>
           LET before == req.pre.expenses.rows
               after == fs.expenses.rows
           IN  IF req.index < Len(WellFormed(before))
               THEN /\ Len(after) = Len(before)
                    /\ \A j \in 1..Len(before) :
                           j # StoredPosition(before, req.index + 1, 1)
                               => SameExpense(after[j], before[j])
                    /\ fs.incomes = req.pre.incomes
               ELSE fs = req.pre

(***************************************************************************)
(* Claims about accounts.                                                  *)
(***************************************************************************)
\* the request is a POST to edit_account at an index into the accounts list
\* the store holds
EditedAccount ==
    req.op = "edit_account" /\ req.index < Len(load_accounts(req.pre))

\* the name at the index before the request, and the name posted
OldName == load_accounts(req.pre)[req.index + 1]
NewName == Strip(Or(req.form.name, <<>>))

\* the request renames: the posted name is non-empty and not the old name
Renames == EditedAccount /\ NewName # <<>> /\ NewName # OldName

\* the account cells of the records loaded after the request are those
\* loaded before it with old_name replaced by new_name
Propagated(before, after, field) ==
    /\ Len(after) = Len(before)
    /\ \A j \in 1..Len(before) :
           after[j][field] = IF before[j][field] = OldName THEN NewName
                             ELSE before[j][field]

\* the same, where a record loaded without an account cell (None) may be
\* loaded with an empty one afterwards
PropagatedByName(before, after, field) ==
    /\ Len(after) = Len(before)
    /\ \A j \in 1..Len(before) :
           Or(after[j][field], <<>>) = IF before[j][field] = OldName THEN NewName
                                       ELSE Or(before[j][field], <<>>)

\* the three files of data/ are as before the request
FilesUnchanged ==
    /\ fs.accounts = req.pre.accounts
    /\ fs.incomes = req.pre.incomes
    /\ fs.expenses = req.pre.expenses

\* the accounts list holds the new name at the index and is otherwise as
\* it was
AccountRenamed ==
    LET before == load_accounts(req.pre)
        after == load_accounts(fs)
    IN  /\ Len(after) = Len(before)
        /\ after[req.index + 1] = NewName
        /\ \A j \in 1..Len(before) : j # req.index + 1 => after[j] = before[j]

C12_BreakdownConsistent ==
    (Dashed /\ AllSharedPositive) =>
        /\ resp.equal_shared =
               QAdd(resp.andreas_share_equal, resp.katharina_share_equal)
        /\ resp.income_shared =
               QAdd(resp.andreas_share_income, resp.katharina_share_income)

(***************************************************************************)
(* Claims about the accounts list.                                         *)
(***************************************************************************)
\* C13 Account names stay unique: starting from the default accounts file,
\* after any sequence of append_account (POST /accounts) and edit_account
\* (POST /accounts/edit/<index>) operations, load_accounts returns a list
\* of non-empty names with no name occurring twice.
C13_UniqueNames ==
    LET accounts == load_accounts(fs)
    IN  /\ \A i \in 1..Len(accounts) : accounts[i] # <<>>
        /\ \A i, j \in 1..Len(accounts) : accounts[i] = accounts[j] => i = j

====
